---- MODULE Spec2Model ----
(***************************************************************************)
(* Rock, Paper, Scissors (src/script.js): the game-state record, the round *)
(* handler playRound with its delay timer, resetGame, the localStorage     *)
(* persistence (saveGame / loadGame) and page start-up (init).             *)
(***************************************************************************)
EXTENDS Integers, Sequences, FiniteSets, TLC

\* ---------------------------------------------------------------- bounds
\* rounds recorded in one session of the interactive specification
MaxGames == 5
\* largest gamesPlayed of a restored session in the win-rate specification
MaxRateGames == 40

\* ------------------------------------------------------------- constants
CHOICES == <<"rock", "paper", "scissors">>

RESULTS == [WIN |-> "win", LOSE |-> "lose", TIE |-> "tie"]

\* binary64 significand width (JavaScript Number)
MantissaBits == 53

\* 100 in `(wins / gamesPlayed) * 100`
Percent == 100

\* text of a stat element that the script has not written yet
HtmlText == -1

\* the object literal of gameState, in property order
FieldOrder ==
  <<"playerScore", "computerScore", "gamesPlayed", "wins", "losses", "ties",
    "currentStreak", "bestStreak", "isPlaying">>

ZeroState ==
  [playerScore |-> 0, computerScore |-> 0, gamesPlayed |-> 0, wins |-> 0,
   losses |-> 0, ties |-> 0, currentStreak |-> 0, bestStreak |-> 0,
   isPlaying |-> FALSE]

\* ------------------------------------------------------- round resolution
winConditions == [rock |-> "scissors", paper |-> "rock", scissors |-> "paper"]

determineWinner_swapped(playerChoice, computerChoice) ==
  IF playerChoice = computerChoice THEN RESULTS.TIE
  ELSE IF winConditions[computerChoice] = playerChoice THEN RESULTS.WIN
       ELSE RESULTS.LOSE

determineWinner(playerChoice, computerChoice) ==
  IF playerChoice = computerChoice THEN RESULTS.TIE
  ELSE IF winConditions[playerChoice] = computerChoice THEN RESULTS.WIN
       ELSE RESULTS.LOSE

\* Math.floor(Math.random() * CHOICES.length) is an index 0..2
getComputerChoice(randomIndex) == CHOICES[randomIndex + 1]

\* ------------------------------------------------------------ statistics
updateGameState_tieUncounted(gs, result) ==
  LET g == IF result = RESULTS.TIE THEN gs
           ELSE [gs EXCEPT !.gamesPlayed = @ + 1]
  IN CASE result = RESULTS.WIN ->
            LET s == g.currentStreak + 1
            IN [g EXCEPT !.playerScore = @ + 1, !.wins = @ + 1,
                         !.currentStreak = s,
                         !.bestStreak = IF s > @ THEN s ELSE @]
       [] result = RESULTS.LOSE ->
            [g EXCEPT !.computerScore = @ + 1, !.losses = @ + 1,
                      !.currentStreak = 0]
       [] result = RESULTS.TIE -> [g EXCEPT !.ties = @ + 1]

updateGameState_tieResets(gs, result) ==
  LET g == [gs EXCEPT !.gamesPlayed = @ + 1]
  IN CASE result = RESULTS.WIN ->
            LET s == g.currentStreak + 1
            IN [g EXCEPT !.playerScore = @ + 1, !.wins = @ + 1,
                         !.currentStreak = s,
                         !.bestStreak = IF s > @ THEN s ELSE @]
       [] result = RESULTS.LOSE ->
            [g EXCEPT !.computerScore = @ + 1, !.losses = @ + 1,
                      !.currentStreak = 0]
       [] result = RESULTS.TIE -> [g EXCEPT !.ties = @ + 1, !.currentStreak = 0]

updateGameState_noBest(gs, result) ==
  LET g == [gs EXCEPT !.gamesPlayed = @ + 1]
  IN CASE result = RESULTS.WIN ->
            [g EXCEPT !.playerScore = @ + 1, !.wins = @ + 1,
                      !.currentStreak = @ + 1]
       [] result = RESULTS.LOSE ->
            [g EXCEPT !.computerScore = @ + 1, !.losses = @ + 1,
                      !.currentStreak = 0]
       [] result = RESULTS.TIE -> [g EXCEPT !.ties = @ + 1]

updateGameState(gs, result) ==
  LET g == [gs EXCEPT !.gamesPlayed = @ + 1]
  IN CASE result = RESULTS.WIN ->
            LET s == g.currentStreak + 1
            IN [g EXCEPT !.playerScore = @ + 1, !.wins = @ + 1,
                         !.currentStreak = s,
                         !.bestStreak = IF s > @ THEN s ELSE @]
       [] result = RESULTS.LOSE ->
            [g EXCEPT !.computerScore = @ + 1, !.losses = @ + 1,
                      !.currentStreak = 0]
       [] result = RESULTS.TIE -> [g EXCEPT !.ties = @ + 1]

\* ------------------------------------------- binary64 arithmetic (Number)
\* A positive Number is [hi, mid, lo, exp]: the 53-bit significand
\* hi * 2^(LimbBits + LoBits) + mid * 2^LoBits + lo with its leading bit set
\* (2^(LimbBits-1) <= hi < 2^LimbBits), worth significand * 2^exp.
LimbBits == 18

LoBits == MantissaBits - 2 * LimbBits

\* round-to-nearest, ties-to-even: up says the discarded part is above one
\* half of the last place, tie that it is exactly one half
RoundNearestEven(x, up, tie) ==
  IF ~(up \/ (tie /\ (x.lo % 2) = 1)) THEN x
  ELSE IF x.lo + 1 < 2^LoBits THEN [x EXCEPT !.lo = @ + 1]
  ELSE IF x.mid + 1 < 2^LimbBits THEN [x EXCEPT !.lo = 0, !.mid = @ + 1]
  ELSE IF x.hi + 1 < 2^LimbBits THEN [x EXCEPT !.lo = 0, !.mid = 0, !.hi = @ + 1]
  ELSE [hi |-> 2^(LimbBits - 1), mid |-> 0, lo |-> 0, exp |-> x.exp + 1]

\* the least k with n * 2^(k+1) >= d
RECURSIVE NormShift(_, _, _)
NormShift(n, d, k) == IF 2 * n >= d THEN k ELSE NormShift(2 * n, d, k + 1)

\* the Number n / d for integers 0 < n < d < 2^13 (long division, one limb
\* of the quotient at a time)
NumberDivide(n, d) ==
  LET k  == NormShift(n, d, 0)
      r0 == n * (2^k)
      hi == (r0 * (2^LimbBits)) \div d
      r1 == (r0 * (2^LimbBits)) % d
      mid == (r1 * (2^LimbBits)) \div d
      r2 == (r1 * (2^LimbBits)) % d
      lo == (r2 * (2^LoBits)) \div d
      r3 == (r2 * (2^LoBits)) % d
  IN RoundNearestEven([hi |-> hi, mid |-> mid, lo |-> lo,
                       exp |-> 0 - (k + MantissaBits)],
                      2 * r3 > d, 2 * r3 = d)

\* the least s with a < 2^(LimbBits + s)
RECURSIVE ExtraBits(_, _)
ExtraBits(a, s) == IF a < 2^(LimbBits + s) THEN s ELSE ExtraBits(a, s + 1)

\* the Number x * c for an integer 2 <= c < 2^12: the exact product limb by
\* limb, then the s low bits that exceed the significand rounded away
NumberTimes(x, c) ==
  LET pl == x.lo * c
      pm == (x.mid * c) + (pl \div (2^LoBits))
      ph == (x.hi * c) + (pm \div (2^LimbBits))
      l  == pl % (2^LoBits)
      m  == pm % (2^LimbBits)
      s  == ExtraBits(ph, 0)
      dropped == l % (2^s)
      half == 2^(s - 1)
  IN RoundNearestEven(
       [hi  |-> ph \div (2^s),
        mid |-> ((ph % (2^s)) * (2^(LimbBits - s))) + (m \div (2^s)),
        lo  |-> ((m % (2^s)) * (2^(LoBits - s))) + (l \div (2^s)),
        exp |-> x.exp + s],
       dropped > half, dropped = half)

\* Math.round of a Number below 2^(LimbBits-1): the nearest integer, a half
\* rounding toward +Infinity
MathRound(x) ==
  LET intLen == MantissaBits + x.exp
  IN IF intLen < 0 THEN 0
     ELSE (x.hi \div (2^(LimbBits - intLen)))
          + ((x.hi \div (2^(LimbBits - 1 - intLen))) % 2)

\* 0 / g is 0 and g / g is 1, both exact, so only 0 < wins < gamesPlayed
\* needs the rounded quotient
calculateWinRate(gs) ==
  IF gs.gamesPlayed = 0 THEN 0
  ELSE IF gs.wins = 0 THEN 0
  ELSE IF gs.wins = gs.gamesPlayed THEN Percent
  ELSE MathRound(NumberTimes(NumberDivide(gs.wins, gs.gamesPlayed), Percent))

\* ------------------------------------------------------------------ state
VARIABLES
  gameState,   \* the gameState object
  storage,     \* the localStorage item 'rpsGameState'
  pending,     \* playRound calls suspended in `await delay(800)`: their playerChoice
  listeners,   \* initEventListeners has run on this page
  ui,          \* textContent of the stat elements written by updateUI
  lastCall,    \* history: the handler that ran last
  lastRound,   \* history: the round the last step completed (NoRound: none)
  hist,        \* history: results recorded since page start or the last resetGame
  start,       \* history: gameState when hist was last emptied
  lastLoad     \* history: what localStorage held when the page started

vars == <<gameState, storage, pending, listeners, ui, lastCall, lastRound,
          hist, start, lastLoad>>

NoItem == [kind |-> "none", pairs |-> <<>>]

Unparseable == [kind |-> "corrupt", pairs |-> <<>>]

NoRound == [playerChoice |-> "none", computerChoice |-> "none",
            result |-> "none", writeOK |-> TRUE]

StaticUI == [playerScore |-> HtmlText, computerScore |-> HtmlText,
             gamesPlayed |-> HtmlText, winRate |-> HtmlText,
             streak |-> HtmlText]

\* e.key values; ToLowerCase is String.prototype.toLowerCase on them
Keys == {"R", "1", "p", "2", "s", "3", "Escape", "x"}

ToLowerCase(key) ==
  CASE key = "R" -> "r"
    [] key = "Escape" -> "escape"
    [] OTHER -> key

\* -------------------------------------------------------------------- UI
updateUI(gs) ==
  [playerScore |-> gs.playerScore, computerScore |-> gs.computerScore,
   gamesPlayed |-> gs.gamesPlayed, winRate |-> calculateWinRate(gs),
   streak |-> gs.currentStreak]

\* ----------------------------------------------------------- persistence
\* JSON.stringify(gameState): every own property, in order, as key/value
JSONstringify(obj) ==
  [i \in 1..Len(FieldOrder) |-> <<FieldOrder[i], obj[FieldOrder[i]]>>]

\* Object.assign(target, JSON.parse(text)) for a text JSON.parse accepts
ObjectAssign(target, pairs) ==
  [k \in DOMAIN target |->
     IF \E i \in 1..Len(pairs) : pairs[i][1] = k
     THEN pairs[CHOOSE i \in 1..Len(pairs) : pairs[i][1] = k][2]
     ELSE target[k]]

\* localStorage.setItem either stores the text or throws (quota, disabled)
saveGame(gs, st, writeOK) ==
  IF writeOK THEN [kind |-> "json", pairs |-> JSONstringify(gs)] ELSE st

\* threw: JSON.parse raised a SyntaxError that loadGame does not catch
loadGame(gs, st, u) ==
  CASE st.kind = "none" -> [threw |-> FALSE, gameState |-> gs, ui |-> u]
    [] st.kind = "corrupt" -> [threw |-> TRUE, gameState |-> gs, ui |-> u]
    [] st.kind = "json" ->
         LET g == ObjectAssign(gs, st.pairs)
         IN [threw |-> FALSE, gameState |-> g, ui |-> updateUI(g)]

\* ---------------------------------------------------------- game actions
playRound_noGuard(playerChoice) ==
  /\ gameState' = [gameState EXCEPT !.isPlaying = TRUE]
  /\ pending' = Append(pending, playerChoice)

\* playRound up to its `await delay(800)`
playRound(playerChoice) ==
  IF gameState.isPlaying
  THEN UNCHANGED <<gameState, pending>>
  ELSE /\ gameState' = [gameState EXCEPT !.isPlaying = TRUE]
       /\ pending' = Append(pending, playerChoice)

resetGame(gs) ==
  [gs EXCEPT !.playerScore = 0, !.computerScore = 0, !.gamesPlayed = 0,
             !.wins = 0, !.losses = 0, !.ties = 0, !.currentStreak = 0]

\* resetGame as a handler: the fields, updateUI, localStorage.removeItem
ResetHandler ==
  /\ gameState' = resetGame(gameState)
  /\ ui' = updateUI(gameState')
  /\ storage' = NoItem
  /\ hist' = <<>>
  /\ start' = gameState'
  /\ lastCall' = "resetGame"
  /\ lastRound' = NoRound
  /\ UNCHANGED <<pending, listeners, lastLoad>>

\* a request the guard would accept is offered only below the bounds
RoundOffered ==
  /\ Len(pending) < MaxGames
  /\ gameState.isPlaying \/ gameState.gamesPlayed < MaxGames

Init ==
  /\ gameState = ZeroState
  /\ storage = NoItem
  /\ pending = <<>>
  /\ listeners = TRUE
  /\ ui = StaticUI
  /\ lastCall = "init"
  /\ lastRound = NoRound
  /\ hist = <<>>
  /\ start = ZeroState
  /\ lastLoad = "none"

\* click on rockBtn / paperBtn / scissorsBtn
ClickChoice ==
  \E i \in 1..Len(CHOICES) :
    /\ listeners
    /\ RoundOffered
    /\ playRound(CHOICES[i])
    /\ lastCall' = "playRound"
    /\ lastRound' = NoRound
    /\ UNCHANGED <<storage, listeners, ui, hist, start, lastLoad>>

\* click on resetBtn
ClickReset ==
  /\ listeners
  /\ ResetHandler

\* the keydown listener
KeyDown ==
  \E key \in Keys :
    /\ listeners
    /\ IF gameState.isPlaying
       THEN /\ lastCall' = "keydown"
            /\ lastRound' = NoRound
            /\ UNCHANGED <<gameState, storage, pending, listeners, ui,
                           hist, start, lastLoad>>
       ELSE LET k == ToLowerCase(key)
            IN CASE k \in {"r", "1"} -> 
                      /\ RoundOffered
                      /\ playRound("rock")
                      /\ lastCall' = "playRound"
                      /\ lastRound' = NoRound
                      /\ UNCHANGED <<storage, listeners, ui, hist, start,
                                     lastLoad>>
                 [] k \in {"p", "2"} ->
                      /\ RoundOffered
                      /\ playRound("paper")
                      /\ lastCall' = "playRound"
                      /\ lastRound' = NoRound
                      /\ UNCHANGED <<storage, listeners, ui, hist, start,
                                     lastLoad>>
                 [] k \in {"s", "3"} ->
                      /\ RoundOffered
                      /\ playRound("scissors")
                      /\ lastCall' = "playRound"
                      /\ lastRound' = NoRound
                      /\ UNCHANGED <<storage, listeners, ui, hist, start,
                                     lastLoad>>
                 [] k = "escape" -> ResetHandler
                 [] OTHER ->
                      /\ lastCall' = "keydown"
                      /\ lastRound' = NoRound
                      /\ UNCHANGED <<gameState, storage, pending, listeners,
                                     ui, hist, start, lastLoad>>

\* the delay timer fires: playRound from getComputerChoice to its end; when
\* setItem throws the async function rejects before `isPlaying = false`
TimerFires ==
  \E randomIndex \in 0..(Len(CHOICES) - 1), writeOK \in BOOLEAN :
    /\ pending # <<>>
    /\ LET playerChoice == Head(pending)
           computerChoice == getComputerChoice(randomIndex)
           result == determineWinner(playerChoice, computerChoice)
           gs == updateGameState(gameState, result)
       IN /\ ui' = updateUI(gs)
          /\ storage' = saveGame(gs, storage, writeOK)
          /\ gameState' = IF writeOK THEN [gs EXCEPT !.isPlaying = FALSE] ELSE gs
          /\ hist' = Append(hist, result)
          /\ lastRound' = [playerChoice |-> playerChoice,
                           computerChoice |-> computerChoice,
                           result |-> result, writeOK |-> writeOK]
    /\ pending' = Tail(pending)
    /\ lastCall' = "timer"
    /\ UNCHANGED <<listeners, start, lastLoad>>

\* the page is loaded again: a fresh gameState, no timers, then init()
Reload ==
  LET l == loadGame(ZeroState, storage, StaticUI)
  IN /\ gameState' = l.gameState
     /\ ui' = l.ui
     /\ listeners' = ~l.threw
     /\ pending' = <<>>
     /\ lastCall' = "init"
     /\ lastRound' = NoRound
     /\ hist' = <<>>
     /\ start' = l.gameState
     /\ lastLoad' = storage.kind
     /\ UNCHANGED storage

\* the stored item is damaged outside the script
StorageCorrupted ==
  /\ storage.kind # "corrupt"
  /\ storage' = Unparseable
  /\ lastCall' = "storage"
  /\ lastRound' = NoRound
  /\ UNCHANGED <<gameState, pending, listeners, ui, hist, start, lastLoad>>

Next ==
  \/ ClickChoice
  \/ ClickReset
  \/ KeyDown
  \/ TimerFires
  \/ Reload
  \/ StorageCorrupted

Spec == Init /\ [][Next]_vars

\* ------------------------------------------- win-rate specification
\* gameState[wins, gamesPlayed] once an earlier page session recorded w wins
\* and then g - w losses; saveGame ran inside playRound, before isPlaying
\* was cleared
SavedSession(w, g) ==
  [playerScore |-> w, computerScore |-> g - w, gamesPlayed |-> g, wins |-> w,
   losses |-> g - w, ties |-> 0,
   currentStreak |-> IF w = g THEN w ELSE 0, bestStreak |-> w,
   isPlaying |-> TRUE]

\* the first visit, or a page started on the item such a session left
InitRate ==
  \/ Init
  \/ \E g \in 1..MaxRateGames : \E w \in 0..g :
       LET st == saveGame(SavedSession(w, g), NoItem, TRUE)
           l == loadGame(ZeroState, st, StaticUI)
       IN /\ gameState = l.gameState
          /\ storage = st
          /\ pending = <<>>
          /\ listeners = ~l.threw
          /\ ui = l.ui
          /\ lastCall = "init"
          /\ lastRound = NoRound
          /\ hist = <<>>
          /\ start = l.gameState
          /\ lastLoad = st.kind

SpecRate == InitRate /\ [][Next]_vars

\* ---------------------------------------------------------------- claims
StatFields ==
  {"playerScore", "computerScore", "gamesPlayed", "wins", "losses", "ties",
   "currentStreak", "bestStreak"}

SameStats(a, b) == \A f \in StatFields : a[f] = b[f]

Max(a, b) == IF a > b THEN a ELSE b

\* C1: immediately after resetGame returns, every SessionStats field
\* (playerScore, computerScore, gamesPlayed, wins, losses, ties,
\* currentStreak, bestStreak) is 0, whatever happened before.
C1_ResetYieldsZeroState ==
  lastCall = "resetGame" => SameStats(gameState, ZeroState)

\* C2: in every reachable state gamesPlayed = wins + losses + ties, and in a
\* session that started from the zero state this is the number of rounds
\* recorded since the start or the last reset.
C2_GamesPlayedCount ==
  /\ gameState.gamesPlayed = gameState.wins + gameState.losses + gameState.ties
  /\ lastLoad # "json" => gameState.gamesPlayed = Len(hist)

\* rounds of all three results recorded after a reset that followed a win
C2_Witness ==
  /\ lastLoad = "none"
  /\ start.bestStreak > 0
  /\ Len(hist) = 3
  /\ gameState.wins = 1 /\ gameState.losses = 1 /\ gameState.ties = 1

\* the transition table of updateGameState
TableStep(old, result, new) ==
  /\ new.gamesPlayed = old.gamesPlayed + 1
  /\ result = "win" =>
       /\ new.playerScore = old.playerScore + 1
       /\ new.wins = old.wins + 1
       /\ new.currentStreak = old.currentStreak + 1
       /\ new.bestStreak = Max(old.bestStreak, new.currentStreak)
       /\ new.computerScore = old.computerScore
       /\ new.losses = old.losses /\ new.ties = old.ties
  /\ result = "lose" =>
       /\ new.computerScore = old.computerScore + 1
       /\ new.losses = old.losses + 1
       /\ new.currentStreak = 0
       /\ new.bestStreak = old.bestStreak
       /\ new.playerScore = old.playerScore
       /\ new.wins = old.wins /\ new.ties = old.ties
  /\ result = "tie" =>
       /\ new.ties = old.ties + 1
       /\ new.currentStreak = old.currentStreak
       /\ new.bestStreak = old.bestStreak
       /\ new.playerScore = old.playerScore
       /\ new.computerScore = old.computerScore
       /\ new.wins = old.wins /\ new.losses = old.losses

Scenario == <<"win", "win", "tie", "lose", "win">>

ScenarioStats(gs) ==
  /\ gs.gamesPlayed = 5 /\ gs.wins = 3 /\ gs.losses = 1 /\ gs.ties = 1
  /\ gs.currentStreak = 1 /\ gs.bestStreak = 2

\* C3: every recorded round changes the statistics as the transition table
\* says (gamesPlayed + 1; win: playerScore, wins, currentStreak + 1 and
\* bestStreak = max(bestStreak, new currentStreak); lose: computerScore,
\* losses + 1, currentStreak 0, bestStreak kept; tie: ties + 1 only), and
\* the results win, win, tie, lose, win from the zero state give
\* gamesPlayed 5, wins 3, losses 1, ties 1, currentStreak 1, bestStreak 2.
C3_TransitionTable ==
  [][lastCall' = "timer" =>
       /\ TableStep(gameState, lastRound'.result, gameState')
       /\ (hist' = Scenario /\ SameStats(start', ZeroState))
            => ScenarioStats(gameState')]_vars

C3_Witness ==
  /\ lastCall = "timer"
  /\ hist = Scenario
  /\ SameStats(start, ZeroState)
  /\ gameState.bestStreak = 2

\* C4: bestStreak >= currentStreak in every reachable state, after every
\* recorded round and after every reset.
C4_BestStreakBound == gameState.bestStreak >= gameState.currentStreak

\* a win that lifts bestStreak to 3 from a streak that a reset had emptied
C4_Witness ==
  /\ lastCall = "timer"
  /\ lastRound.result = "win"
  /\ gameState.currentStreak = 3
  /\ gameState.bestStreak = 3
  /\ start.bestStreak = 2

WinPairs == {<<"rock", "scissors">>, <<"paper", "rock">>, <<"scissors", "paper">>}

\* C5: the result of every round is exactly one of win / lose / tie: tie iff
\* the choices are equal, win iff (player, computer) is (rock, scissors),
\* (paper, rock) or (scissors, paper), lose otherwise; and it is win iff the
\* round with the choices exchanged is lose.
C5_DetermineWinner ==
  lastRound.result # "none" =>
    LET p == lastRound.playerChoice
        c == lastRound.computerChoice
        r == lastRound.result
    IN /\ r \in {"win", "lose", "tie"}
       /\ (r = "tie") <=> (p = c)
       /\ (r = "win") <=> (<<p, c>> \in WinPairs)
       /\ (r = "lose") <=> (p # c /\ <<p, c>> \notin WinPairs)
       /\ (r = "win") <=> (determineWinner(c, p) = "lose")

C5_Witness ==
  /\ lastRound.playerChoice = "scissors"
  /\ lastRound.computerChoice = "rock"
  /\ lastRound.result = "lose"

\* C6: at most one round is pending at any time, and a round request (click
\* or key press) made while isPlaying is true starts no round, changes no
\* field of gameState and records nothing.
C6_NoOverlap ==
  [][/\ Len(pending') <= 1
     /\ (lastCall' \in {"playRound", "keydown"} /\ gameState.isPlaying)
          => (gameState' = gameState /\ pending' = pending /\ hist' = hist)]_vars

\* a key press dropped by the listener while a round is pending
C6_Witness ==
  /\ lastCall = "keydown"
  /\ gameState.isPlaying
  /\ Len(pending) = 1

\* C7: whenever the delay timer of an accepted round has fired, the round
\* has recorded its result and isPlaying is false again.
C7_GuardCleared ==
  lastCall = "timer" => ~gameState.isPlaying

\* C8: a page started on a missing or unparseable item has the zero state
\* and its listeners installed, and a round whose storage write failed has
\* kept its result and cleared isPlaying.
C8_PersistenceNeverBlocks ==
  /\ (lastCall = "init" /\ lastLoad \in {"none", "corrupt"})
       => (gameState = ZeroState /\ listeners)
  /\ (lastCall = "timer" /\ ~lastRound.writeOK)
       => (~gameState.isPlaying
           /\ gameState.gamesPlayed = start.gamesPlayed + Len(hist))

\* C9: calculateWinRate is 0 when gamesPlayed = 0 and otherwise 100 * wins /
\* gamesPlayed rounded half up, floor((200 * wins + gamesPlayed) /
\* (2 * gamesPlayed)), and lies in 0..100.
C9_WinRateRoundHalfUp ==
  LET w == gameState.wins
      g == gameState.gamesPlayed
      r == calculateWinRate(gameState)
  IN /\ r \in 0..100
     /\ g = 0 => r = 0
     /\ g > 0 => r = (200 * w + g) \div (2 * g)

\* C10: a page restarted right after a round completed normally has the
\* statistics of the end of that round and isPlaying false.
C10_RestartRestores ==
  [][(lastCall = "timer" /\ lastRound.writeOK /\ lastCall' = "init")
       => (SameStats(gameState', gameState) /\ ~gameState'.isPlaying)]_vars

====
